---- MODULE Spec2Model ----
(***************************************************************************)
(* Model of the IntroPsych scoring pipeline:                               *)
(*   src/cleaning.py  tidy_columns                                         *)
(*   src/scoring.py   confidence_to_prob, abs_for_question,                *)
(*                    cws_for_question, add_question_scores,               *)
(*                    add_summary_scores                                   *)
(*   src/stats.py     independent_t                                        *)
(*                                                                         *)
(* Numbers are exact fractions [n, d] in lowest terms with d > 0; the      *)
(* missing value (pandas NaN) is the fraction with d = 0.  A data frame is *)
(* [n |-> number of rows, data |-> [column -> sequence of cells]]; the     *)
(* left-to-right order of the derived columns is not represented.          *)
(***************************************************************************)
EXTENDS Integers, Sequences, FiniteSets, TLC

VARIABLES raw, df, pc, err, warnings, rescored, tdf, tres, cq

vars == <<raw, df, pc, err, warnings, rescored, tdf, tres, cq>>

(***************************************************************************)
(* Bounds of the model.                                                    *)
(***************************************************************************)
NQ == 2          \* n_questions used by the bounded runs (the code defaults to 20)
MaxRows == 2     \* rows of a raw sheet
MaxDen == 6      \* probabilities k/d with d <= MaxDen
MaxTRows == 4    \* rows of the table handed to independent_t

(***************************************************************************)
(* Arithmetic on pandas/numpy floats, as exact fractions with NaN.         *)
(***************************************************************************)
Abs(a) == IF a < 0 THEN -a ELSE a

RECURSIVE GCD(_, _)
GCD(a, b) == IF b = 0 THEN a ELSE GCD(b, a % b)

NaN == [n |-> 0, d |-> 0]

IsNaN(x) == x.d = 0

Rat(a, b) ==
    IF b = 0 THEN NaN
    ELSE LET g == GCD(Abs(a), Abs(b))
             s == IF b < 0 THEN -1 ELSE 1
         IN  [n |-> (s * a) \div g, d |-> (s * b) \div g]

Num(a) == [n |-> a, d |-> 1]

RAdd(x, y) == IF IsNaN(x) \/ IsNaN(y) THEN NaN
              ELSE Rat(x.n * y.d + y.n * x.d, x.d * y.d)

RSub(x, y) == IF IsNaN(x) \/ IsNaN(y) THEN NaN
              ELSE Rat(x.n * y.d - y.n * x.d, x.d * y.d)

RMul(x, y) == IF IsNaN(x) \/ IsNaN(y) THEN NaN
              ELSE Rat(x.n * y.n, x.d * y.d)

\* division by a non-zero Python int
RDivInt(x, k) == IF IsNaN(x) THEN NaN ELSE Rat(x.n, x.d * k)

\* comparisons with NaN are false, as for floats
RLt(x, y) == ~IsNaN(x) /\ ~IsNaN(y) /\ x.n * y.d < y.n * x.d

RLe(x, y) == ~IsNaN(x) /\ ~IsNaN(y) /\ x.n * y.d <= y.n * x.d

(***************************************************************************)
(* scoring.py: the per-question formulas.                                  *)
(***************************************************************************)
\* variant: a missing confidence is filled with the lowest rating first
confidence_to_prob_fillna(conf) ==
    IF IsNaN(conf) THEN Num(0) ELSE RDivInt(RSub(conf, Num(1)), 6)

confidence_to_prob(conf) == RDivInt(RSub(conf, Num(1)), 6)

abs_for_question(p, y) ==
    RAdd(RSub(Num(1), RMul(RSub(p, y), RSub(p, y))), RMul(Rat(1, 2), y))

\* variant: the wrong-answer part grows with p
cws_wrong_sign(p, y) ==
    LET correct_part == RAdd(Rat(3, 5), RMul(Rat(2, 5), p))
        wrong_part == RAdd(Rat(2, 5), RMul(Rat(2, 5), p))
    IN  RAdd(RMul(y, correct_part), RMul(RSub(Num(1), y), wrong_part))

cws_for_question(p, y) ==
    LET correct_part == RAdd(Rat(3, 5), RMul(Rat(2, 5), p))
        wrong_part == RSub(Rat(2, 5), RMul(Rat(2, 5), p))
    IN  RAdd(RMul(y, correct_part), RMul(RSub(Num(1), y), wrong_part))

(***************************************************************************)
(* Raw sheets.  A column name is a sequence of text tokens; a cell is      *)
(* [k |-> kind, v |-> payload] with kind "num" (a number), "numtext" (text *)
(* that parses as a number), "text", "time" (a datetime), "nan" (empty),   *)
(* "CG" or "EG" (the group label).                                         *)
(***************************************************************************)
QTok == <<"Q1", "Q2", "Q3", "Q4", "Q5", "Q6">>

ScoreCol(i) == <<QTok[i], "[Score]">>

ConfCol(i) == <<"How confident", QTok[i]>>

TimestampCol == <<"Timestamp">>

NameCol == <<"What is your name", "?">>

NameCol2 == <<"Q:", "What is your name", "(full)">>

TextCol == <<"Q1">>

GroupCol == <<"group">>

Cell(k, v) == [k |-> k, v |-> v]

Min(a, b) == IF a < b THEN a ELSE b

Max(a, b) == IF a > b THEN a ELSE b

\* str.endswith / str.startswith / "in" / == on a column name
EndsWithScore(c) == c[Len(c)] = "[Score]"

StartsWithHowConfident(c) == c[1] = "How confident"

ContainsName(c) == \E i \in 1..Len(c) : c[i] = "What is your name"

HasColumn(cols, c) == \E i \in 1..Len(cols) : cols[i] = c

\* list.index: position of the first occurrence
Index(cols, c) == CHOOSE i \in 1..Len(cols) :
                     cols[i] = c /\ \A j \in 1..(i - 1) : cols[j] # c

RECURSIVE InsertByIndex(_, _, _)
InsertByIndex(s, c, cols) ==
    IF s = <<>> THEN <<c>>
    ELSE IF Index(cols, s[Len(s)]) <= Index(cols, c) THEN Append(s, c)
    ELSE Append(InsertByIndex(SubSeq(s, 1, Len(s) - 1), c, cols), s[Len(s)])

\* sorted(xs, key=lambda c: cols.index(c)), a stable sort
RECURSIVE SortedByIndex(_, _)
SortedByIndex(s, cols) ==
    IF s = <<>> THEN <<>>
    ELSE InsertByIndex(SortedByIndex(SubSeq(s, 1, Len(s) - 1), cols), s[Len(s)], cols)

\* pd.to_numeric(..., errors="coerce") on one cell
to_numeric(c) == IF c.k \in {"num", "numtext"} THEN Num(c.v) ELSE NaN

KindNo(k) == CASE k = "num" -> 1 [] k = "numtext" -> 2 [] k = "time" -> 3
               [] k = "nan" -> 4 [] k = "CG" -> 5 [] k = "EG" -> 6 [] OTHER -> 0

\* Series.astype(str) on one cell: text stays, anything else is rendered
astype_str(c) == IF c.k \in {"text", "numtext"} THEN Cell("text", c.v)
                 ELSE Cell("text", 100 + 10 * KindNo(c.k) + c.v)

(***************************************************************************)
(* Data frames of the tidy/scored table.                                   *)
(***************************************************************************)
Col(name, i) == <<name, i>>

ParticipantC == Col("participant", 0)

GroupC == Col("group", 0)

NoDf == [n |-> 0, data |-> [c \in {} |-> <<>>]]

HasCol(d, c) == c \in DOMAIN d.data

HasCols(d, name, n) == \A i \in 1..n : HasCol(d, Col(name, i))

Warning(what, expected, found) ==
    [what |-> what, expected |-> expected, found |-> found]

(***************************************************************************)
(* cleaning.py: tidy_columns(df, n_questions)                              *)
(***************************************************************************)
\* variant: the synthetic index is the row's position in the unfiltered sheet
participant_by_position(r, keep) ==
    LET name_candidates == SelectSeq(r.cols, ContainsName)
    IN  IF name_candidates # <<>>
        THEN [j \in 1..Len(keep) |-> r.data[name_candidates[1]][keep[j]]]
        ELSE IF HasColumn(r.cols, TimestampCol)
        THEN [j \in 1..Len(keep) |-> astype_str(r.data[TimestampCol][keep[j]])]
        ELSE [j \in 1..Len(keep) |-> Cell("num", keep[j])]

participant_column(r, keep) ==
    LET name_candidates == SelectSeq(r.cols, ContainsName)
    IN  IF name_candidates # <<>>
        THEN [j \in 1..Len(keep) |-> r.data[name_candidates[1]][keep[j]]]
        ELSE IF HasColumn(r.cols, TimestampCol)
        THEN [j \in 1..Len(keep) |-> astype_str(r.data[TimestampCol][keep[j]])]
        ELSE [j \in 1..Len(keep) |-> Cell("num", j)]

discovered_score_cols(r) ==
    SortedByIndex(SelectSeq(r.cols, EndsWithScore), r.cols)

discovered_conf_cols(r) ==
    SortedByIndex(SelectSeq(r.cols, StartsWithHowConfident), r.cols)

count_warnings(r, n) ==
    LET ns == Len(discovered_score_cols(r))
        nc == Len(discovered_conf_cols(r))
    IN  (IF ns # n THEN <<Warning("score", n, ns)>> ELSE <<>>)
        \o (IF nc # n THEN <<Warning("confidence", n, nc)>> ELSE <<>>)

\* rows kept by the mask on the first score column, in sheet order
kept_rows(r) ==
    LET first_score_col == discovered_score_cols(r)[1]
    IN  SelectSeq([i \in 1..r.n |-> i],
                  LAMBDA i : ~IsNaN(to_numeric(r.data[first_score_col][i])))

tidy_columns(r, n) ==
    LET score_cols == discovered_score_cols(r)
        conf_cols == discovered_conf_cols(r)
        warns == count_warnings(r, n)
    IN  IF score_cols = <<>>
        THEN [status |-> "IndexError", warnings |-> warns, df |-> NoDf]
        ELSE
        LET keep == kept_rows(r)
            participant == participant_column(r, keep)
            pairs == Min(Len(score_cols), Len(conf_cols))
            \* the dict built by the zip loop
            built == {ParticipantC, GroupC}
                       \cup {Col("correct", i) : i \in 1..pairs}
                       \cup {Col("conf", i) : i \in 1..pairs}
            cols_order == {ParticipantC, GroupC}
                       \cup {Col("correct", i) : i \in 1..n}
                       \cup {Col("conf", i) : i \in 1..n}
            value(c) ==
                IF c = ParticipantC THEN participant
                ELSE IF c = GroupC
                THEN [j \in 1..Len(keep) |-> r.data[GroupCol][keep[j]]]
                ELSE IF c[1] = "correct"
                THEN [j \in 1..Len(keep) |->
                         to_numeric(r.data[score_cols[c[2]]][keep[j]])]
                ELSE [j \in 1..Len(keep) |->
                         to_numeric(r.data[conf_cols[c[2]]][keep[j]])]
        IN  IF ~(cols_order \subseteq built)
            THEN [status |-> "KeyError", warnings |-> warns, df |-> NoDf]
            ELSE [status |-> "ok", warnings |-> warns,
                  df |-> [n |-> Len(keep),
                          data |-> [c \in cols_order |-> value(c)]]]

(***************************************************************************)
(* scoring.py: add_question_scores and add_summary_scores.  Both mutate    *)
(* the frame in place, so a KeyError leaves the columns assigned so far.   *)
(***************************************************************************)
\* the first question whose columns are missing (n + 1 when none is)
first_missing(d, n, use_abs, use_cws) ==
    LET bad == {i \in 1..n : \/ ~HasCol(d, Col("conf", i))
                             \/ (use_abs \/ use_cws) /\ ~HasCol(d, Col("correct", i))}
    IN  IF bad = {} THEN n + 1 ELSE CHOOSE i \in bad : \A k \in bad : i <= k

\* row j of df[p_col] after the assignment of p_i
p_cell(d, i, j) == confidence_to_prob(d.data[Col("conf", i)][j])

p_column(d, i) == [j \in 1..d.n |-> p_cell(d, i, j)]

abs_column(d, i) ==
    [j \in 1..d.n |-> abs_for_question(p_cell(d, i, j), d.data[Col("correct", i)][j])]

cws_column(d, i) ==
    [j \in 1..d.n |-> cws_for_question(p_cell(d, i, j), d.data[Col("correct", i)][j])]

\* variant: abs_i is assigned whatever use_abs says
question_assigned_always_abs(d, n, use_abs, use_cws) ==
    LET k == first_missing(d, n, use_abs, use_cws)
    IN  {Col("p", i) : i \in {i \in 1..Min(k, n) : HasCol(d, Col("conf", i))}}
        \cup {Col("abs", i) : i \in 1..(k - 1)}
        \cup (IF use_cws THEN {Col("cws", i) : i \in 1..(k - 1)} ELSE {})

\* the columns the loop assigns before it ends or hits a missing column
question_assigned(d, n, use_abs, use_cws) ==
    LET k == first_missing(d, n, use_abs, use_cws)
    IN  {Col("p", i) : i \in {i \in 1..Min(k, n) : HasCol(d, Col("conf", i))}}
        \cup (IF use_abs THEN {Col("abs", i) : i \in 1..(k - 1)} ELSE {})
        \cup (IF use_cws THEN {Col("cws", i) : i \in 1..(k - 1)} ELSE {})

\* the loop over i = 1..n; it stops at the first missing column (KeyError)
add_question_scores(d, n, use_abs, use_cws) ==
    LET k == first_missing(d, n, use_abs, use_cws)
        assigned == question_assigned(d, n, use_abs, use_cws)
    IN  [status |-> IF k > n THEN "ok" ELSE "KeyError",
         df |-> [d EXCEPT !.data =
                   [c \in (DOMAIN d.data) \cup assigned |->
                       IF c \notin assigned THEN d.data[c]
                       ELSE IF c[1] = "p" THEN p_column(d, c[2])
                       ELSE IF c[1] = "abs" THEN abs_column(d, c[2])
                       ELSE cws_column(d, c[2])]]]

\* DataFrame.sum(axis=1): missing values are skipped, an empty sum is 0
RECURSIVE row_sum(_, _, _, _)
row_sum(d, name, n, j) ==
    IF n = 0 THEN Num(0)
    ELSE LET x == d.data[Col(name, n)][j]
         IN  IF IsNaN(x) THEN row_sum(d, name, n - 1, j)
             ELSE RAdd(row_sum(d, name, n - 1, j), x)

row_count(d, name, n, j) ==
    Cardinality({i \in 1..n : ~IsNaN(d.data[Col(name, i)][j])})

\* DataFrame.mean(axis=1): mean of the non-missing values, NaN when none
row_mean(d, name, n, j) ==
    IF row_count(d, name, n, j) = 0 THEN NaN
    ELSE RDivInt(row_sum(d, name, n, j), row_count(d, name, n, j))

total_correct_of(d, n, j) == row_sum(d, "correct", n, j)

\* variant: divides by the number of answered questions
accuracy_by_answered(d, n, j) ==
    RDivInt(total_correct_of(d, n, j), Max(1, row_count(d, "correct", n, j)))

accuracy_of(d, n, j) == RDivInt(total_correct_of(d, n, j), n)

\* variant: the confidences are summed, not averaged
mean_conf_as_sum(d, n, j) ==
    IF row_count(d, "conf", n, j) = 0 THEN NaN ELSE row_sum(d, "conf", n, j)

mean_conf_of(d, n, j) == row_mean(d, "conf", n, j)

total_abs_of(d, n, j) == row_sum(d, "abs", n, j)

\* variant: the total is added to the total already in the frame
total_cws_accumulated(d, n, j) ==
    IF HasCol(d, Col("total_cws", 0))
    THEN RAdd(d.data[Col("total_cws", 0)][j], row_sum(d, "cws", n, j))
    ELSE row_sum(d, "cws", n, j)

total_cws_of(d, n, j) == row_sum(d, "cws", n, j)

\* how far add_summary_scores gets before a KeyError: 0 nothing assigned,
\* 1 total_correct and accuracy, 2 also mean_conf, 3 also total_abs, 4 all
summary_progress(d, n, use_abs, use_cws) ==
    IF ~HasCols(d, "correct", n) THEN 0
    ELSE IF ~HasCols(d, "conf", n) THEN 1
    ELSE IF use_abs /\ ~HasCols(d, "abs", n) THEN 2
    ELSE IF use_cws /\ ~HasCols(d, "cws", n) THEN 3
    ELSE 4

add_summary_scores(d, n, use_abs, use_cws) ==
    LET g == summary_progress(d, n, use_abs, use_cws)
        assigned ==
            (IF g >= 1 THEN {Col("total_correct", 0), Col("accuracy", 0)} ELSE {})
            \cup (IF g >= 2 THEN {Col("mean_conf", 0)} ELSE {})
            \cup (IF g >= 3 /\ use_abs THEN {Col("total_abs", 0)} ELSE {})
            \cup (IF g >= 4 /\ use_cws THEN {Col("total_cws", 0)} ELSE {})
    IN  [status |-> IF g = 4 THEN "ok" ELSE "KeyError",
         df |-> [d EXCEPT !.data =
                   [c \in (DOMAIN d.data) \cup assigned |->
                       IF c \notin assigned THEN d.data[c]
                       ELSE IF c[1] = "total_correct"
                       THEN [j \in 1..d.n |-> total_correct_of(d, n, j)]
                       ELSE IF c[1] = "accuracy"
                       THEN [j \in 1..d.n |-> accuracy_of(d, n, j)]
                       ELSE IF c[1] = "mean_conf"
                       THEN [j \in 1..d.n |-> mean_conf_of(d, n, j)]
                       ELSE IF c[1] = "total_abs"
                       THEN [j \in 1..d.n |-> total_abs_of(d, n, j)]
                       ELSE [j \in 1..d.n |-> total_cws_of(d, n, j)]]]]

(***************************************************************************)
(* stats.py: independent_t.  The table is a sequence of rows               *)
(* [group, dv]; t, p and cohens_d are kept as the class of the float the   *)
(* formula yields ("nan", "-inf", "neg", "zero", "pos", "+inf").           *)
(***************************************************************************)
\* df.loc[df[group_col] == g, dv].dropna()
group_values(t, g) ==
    LET sel == SelectSeq(t, LAMBDA r : r.group = g /\ ~IsNaN(r.dv))
    IN  [i \in 1..Len(sel) |-> sel[i].dv]

RECURSIVE seq_sum(_)
seq_sum(x) == IF x = <<>> THEN Num(0)
              ELSE RAdd(seq_sum(SubSeq(x, 1, Len(x) - 1)), x[Len(x)])

\* Series.mean(): NaN for an empty series
series_mean(x) == IF Len(x) = 0 THEN NaN ELSE RDivInt(seq_sum(x), Len(x))

\* Series.std(ddof=1) ** 2: NaN with fewer than two values
series_var(x) ==
    IF Len(x) < 2 THEN NaN
    ELSE LET m == series_mean(x)
             sq == [i \in 1..Len(x) |-> RMul(RSub(x[i], m), RSub(x[i], m))]
         IN  RDivInt(seq_sum(sq), Len(x) - 1)

\* class of the float num / sqrt(den2) under numpy division
float_ratio(num, den2) ==
    IF IsNaN(num) \/ IsNaN(den2) THEN "nan"
    ELSE IF den2.n = 0
         THEN (IF num.n = 0 THEN "nan" ELSE IF num.n > 0 THEN "+inf" ELSE "-inf")
    ELSE IF num.n = 0 THEN "zero"
    ELSE IF num.n > 0 THEN "pos" ELSE "neg"

\* scipy.stats.ttest_ind(x1, x2, equal_var=False)
welch_t(x1, x2) ==
    IF Len(x1) = 0 \/ Len(x2) = 0 THEN "nan"
    ELSE float_ratio(RSub(series_mean(x1), series_mean(x2)),
                     RAdd(RDivInt(series_var(x1), Len(x1)),
                          RDivInt(series_var(x2), Len(x2))))

welch_p(t) == IF t = "nan" THEN "nan"
              ELSE IF t \in {"+inf", "-inf"} THEN "zero" ELSE "num"

cohens_d(x1, x2) ==
    LET n1 == Len(x1)
        n2 == Len(x2)
        num == RAdd(RMul(Num(n1 - 1), series_var(x1)),
                    RMul(Num(n2 - 1), series_var(x2)))
        \* a NaN numerator divided by the int n1 + n2 - 2 stays NaN, also by 0
        pooled_var == IF IsNaN(num) THEN NaN ELSE RDivInt(num, n1 + n2 - 2)
    IN  float_ratio(RSub(series_mean(x1), series_mean(x2)), pooled_var)

independent_t(t, g1, g2) ==
    LET x1 == group_values(t, g1)
        x2 == group_values(t, g2)
        tt == welch_t(x1, x2)
    IN  [status |-> "returned", group1 |-> g1, group2 |-> g2,
         mean1 |-> series_mean(x1), mean2 |-> series_mean(x2),
         t |-> tt, p |-> welch_p(tt), cohens_d |-> cohens_d(x1, x2),
         n1 |-> Len(x1), n2 |-> Len(x2)]

(***************************************************************************)
(* Inputs.                                                                 *)
(***************************************************************************)
RECURSIVE QuestionCols(_, _, _)
QuestionCols(i, ns, nc) ==
    IF i > Max(ns, nc) THEN <<>>
    ELSE (IF i <= ns THEN <<ScoreCol(i)>> ELSE <<>>)
         \o (IF i <= nc THEN <<ConfCol(i)>> ELSE <<>>)
         \o QuestionCols(i + 1, ns, nc)

\* which of the Timestamp and name columns a sheet has
HeadLayouts == {<<>>, <<TimestampCol>>, <<NameCol>>, <<TimestampCol, NameCol2, NameCol>>}

Layout(head, ns, nc) ==
    head \o <<TextCol>> \o QuestionCols(1, ns, nc) \o <<GroupCol>>

Range(s) == {s[i] : i \in 1..Len(s)}

RowKinds == {"header", "response"}

\* The cell of row i in column c.  A header row repeats the column titles.
\* A response row answers by its position: every third row from the first
\* answers every question correctly with confidence 7; from the second,
\* question 1 is wrong (typed as text) without a confidence and the others
\* hold the out-of-scale score 2 and confidence 8; from the third, question 1
\* is wrong with confidence 4 and the others are unanswered with confidence 1.
CellOf(kind, c, i) ==
    IF c = GroupCol THEN (IF i % 2 = 1 THEN Cell("CG", 0) ELSE Cell("EG", 0))
    ELSE IF kind = "header" THEN Cell("text", 0)
    ELSE IF c = TimestampCol THEN Cell("time", i)
    ELSE IF c = NameCol THEN Cell("text", i)
    ELSE IF c = NameCol2 THEN Cell("text", 10 + i)
    ELSE IF c = TextCol THEN Cell("text", 0)
    ELSE IF EndsWithScore(c)
    THEN (IF i % 3 = 1 THEN Cell("num", 1)
          ELSE IF c = ScoreCol(1)
          THEN (IF i % 3 = 2 THEN Cell("numtext", 0) ELSE Cell("num", 0))
          ELSE (IF i % 3 = 2 THEN Cell("num", 2) ELSE Cell("nan", 0)))
    ELSE (IF i % 3 = 1 THEN Cell("num", 7)
          ELSE IF c = ConfCol(1)
          THEN (IF i % 3 = 2 THEN Cell("nan", 0) ELSE Cell("num", 4))
          ELSE (IF i % 3 = 2 THEN Cell("num", 8) ELSE Cell("numtext", 1)))

\* sheets of every column layout, each row a header row or a response row
LayoutSheets ==
    { [cols |-> Layout(head, ns, nc),
       n |-> Len(kinds),
       data |-> [c \in Range(Layout(head, ns, nc)) |->
                    [i \in 1..Len(kinds) |-> CellOf(kinds[i], c, i)]]] :
      head \in HeadLayouts,
      ns \in 0..(NQ + 1), nc \in 0..(NQ + 1),
      kinds \in UNION {[1..k -> RowKinds] : k \in 1..MaxRows} }

CorrectValues == {NaN, Num(0), Num(1)}

ConfValues == {NaN, Num(4)}

\* one-row tidy frames handed to the scoring functions directly
TidyFrames ==
    { [n |-> 1,
       data |-> [c \in {ParticipantC, GroupC}
                       \cup {Col("correct", i) : i \in 1..NQ}
                       \cup {Col("conf", i) : i \in 1..NQ} |->
                    IF c = ParticipantC THEN <<Cell("text", 1)>>
                    ELSE IF c = GroupC THEN <<Cell("CG", 0)>>
                    ELSE IF c[1] = "correct" THEN <<y[c[2]]>>
                    ELSE <<cf[c[2]]>>]] :
      y \in [1..NQ -> CorrectValues], cf \in [1..NQ -> ConfValues] }

NoSheet == [cols |-> <<>>, n |-> 0, data |-> [c \in {} |-> <<>>]]

DvValues == {NaN, Num(0), Num(2)}

Groups == {"CG", "EG"}

TTables == UNION {[1..k -> [group : Groups, dv : DvValues]] : k \in 0..MaxTRows}

NoResult == [status |-> "pending", group1 |-> "", group2 |-> "",
             mean1 |-> NaN, mean2 |-> NaN, t |-> "nan", p |-> "nan",
             cohens_d |-> "nan", n1 |-> 0, n2 |-> 0]

Probabilities == {x \in {Rat(k, d) : k \in 0..MaxDen, d \in 1..MaxDen} : RLe(x, Num(1))}

NoQuery == [status |-> "idle", p1 |-> NaN, y1 |-> NaN, p2 |-> NaN, y2 |-> NaN,
            cws1 |-> NaN, cws2 |-> NaN]

(* The pipeline: tidy_columns on a raw sheet, then the scoring calls in    *)
(* any order, any number of times; the scoring calls are also made on a    *)
(* tidy frame built elsewhere.  rescored records which calls with both     *)
(* flags set (as make_processed makes them) have been made on a frame that *)
(* already held every column they assign.                                  *)
(***************************************************************************)
FullyScored(d, n, use_abs, use_cws) ==
    /\ HasCols(d, "p", n)
    /\ use_abs => HasCols(d, "abs", n) /\ HasCol(d, Col("total_abs", 0))
    /\ use_cws => HasCols(d, "cws", n) /\ HasCol(d, Col("total_cws", 0))
    /\ \A c \in {"total_correct", "accuracy", "mean_conf"} : HasCol(d, Col(c, 0))

InitSheet ==
    /\ raw \in LayoutSheets
    /\ df = NoDf
    /\ pc = "start"

InitFrame ==
    /\ raw = NoSheet
    /\ df \in TidyFrames
    /\ pc = "tidied"

Init ==
    /\ InitSheet \/ InitFrame
    /\ err = "none"
    /\ warnings = <<>>
    /\ rescored = {}
    /\ tdf = <<>>
    /\ tres = NoResult
    /\ cq = NoQuery

TidyColumns ==
    /\ pc = "start"
    /\ LET r == tidy_columns(raw, NQ)
       IN  /\ df' = r.df
           /\ err' = (IF r.status = "ok" THEN "none" ELSE r.status)
           /\ warnings' = r.warnings
           /\ pc' = (IF r.status = "ok" THEN "tidied" ELSE "aborted")
    /\ UNCHANGED <<raw, rescored, tdf, tres, cq>>

AddQuestionScores(use_abs, use_cws) ==
    /\ pc = "tidied"
    /\ LET r == add_question_scores(df, NQ, use_abs, use_cws)
       IN  /\ df' = r.df
           /\ err' = (IF r.status = "ok" THEN "none" ELSE r.status)
    /\ rescored' = (IF use_abs /\ use_cws /\ FullyScored(df, NQ, TRUE, TRUE)
                    THEN rescored \cup {"question"} ELSE rescored)
    /\ UNCHANGED <<raw, pc, warnings, tdf, tres, cq>>

AddSummaryScores(use_abs, use_cws) ==
    /\ pc = "tidied"
    /\ LET r == add_summary_scores(df, NQ, use_abs, use_cws)
       IN  /\ df' = r.df
           /\ err' = (IF r.status = "ok" THEN "none" ELSE r.status)
    /\ rescored' = (IF use_abs /\ use_cws /\ FullyScored(df, NQ, TRUE, TRUE)
                    THEN rescored \cup {"summary"} ELSE rescored)
    /\ UNCHANGED <<raw, pc, warnings, tdf, tres, cq>>

Next ==
    \/ TidyColumns
    \/ \E use_abs \in BOOLEAN, use_cws \in BOOLEAN : AddQuestionScores(use_abs, use_cws)
    \/ \E use_abs \in BOOLEAN, use_cws \in BOOLEAN : AddSummaryScores(use_abs, use_cws)

Spec == Init /\ [][Next]_vars

(***************************************************************************)
(* independent_t on a table of (group, dv) rows.                           *)
(***************************************************************************)
InitT ==
    /\ raw = NoSheet
    /\ df = NoDf
    /\ pc = "stats"
    /\ err = "none"
    /\ warnings = <<>>
    /\ rescored = {}
    /\ tdf \in TTables
    /\ tres = NoResult
    /\ cq = NoQuery

IndependentT(g1, g2) ==
    /\ pc = "stats"
    /\ tres.status = "pending"
    /\ tres' = independent_t(tdf, g1, g2)
    /\ UNCHANGED <<raw, df, pc, err, warnings, rescored, tdf, cq>>

NextT == \E g1 \in Groups : \E g2 \in Groups \ {g1} : IndependentT(g1, g2)

SpecT == InitT /\ [][NextT]_vars

(***************************************************************************)
(* cws_for_question on two (p, y) pairs.                                   *)
(***************************************************************************)
InitCws ==
    /\ raw = NoSheet
    /\ df = NoDf
    /\ pc = "cws"
    /\ err = "none"
    /\ warnings = <<>>
    /\ rescored = {}
    /\ tdf = <<>>
    /\ tres = NoResult
    /\ \E p1 \in Probabilities, p2 \in Probabilities, y1 \in {0, 1}, y2 \in {0, 1} :
          cq = [NoQuery EXCEPT !.p1 = p1, !.p2 = p2, !.y1 = Num(y1), !.y2 = Num(y2)]

CwsForQuestion ==
    /\ pc = "cws"
    /\ cq.status = "idle"
    /\ cq' = [cq EXCEPT !.status = "scored",
                        !.cws1 = cws_for_question(cq.p1, cq.y1),
                        !.cws2 = cws_for_question(cq.p2, cq.y2)]
    /\ UNCHANGED <<raw, df, pc, err, warnings, rescored, tdf, tres>>

NextCws == CwsForQuestion

SpecCws == InitCws /\ [][NextCws]_vars

(***************************************************************************)
(* Properties.                                                             *)
(***************************************************************************)
FromSheet == raw # NoSheet /\ pc # "start"

Questions(d) == {i \in 1..Len(QTok) : HasCol(d, Col("correct", i)) /\ HasCol(d, Col("conf", i))}

\* C1: every correct-answer CWS exceeds every wrong-answer CWS for p1, p2 in
\* [0,1], and the corners are ordered CWS(1,1) > CWS(0,1) > CWS(0,0) > CWS(1,0).
C1_CorrectBeatsWrong ==
    cq.status = "scored" =>
       /\ (cq.y1 = Num(1) /\ cq.y2 = Num(0)) => RLt(cq.cws2, cq.cws1)
       /\ (cq.p1 = Num(1) /\ cq.y1 = Num(1) /\ cq.p2 = Num(0) /\ cq.y2 = Num(1))
             => cq.cws1 = Num(1) /\ cq.cws2 = Rat(3, 5)
       /\ (cq.p1 = Num(0) /\ cq.y1 = Num(1) /\ cq.p2 = Num(0) /\ cq.y2 = Num(0))
             => cq.cws1 = Rat(3, 5) /\ cq.cws2 = Rat(2, 5)
       /\ (cq.p1 = Num(0) /\ cq.y1 = Num(0) /\ cq.p2 = Num(1) /\ cq.y2 = Num(0))
             => cq.cws1 = Rat(2, 5) /\ cq.cws2 = Num(0)

C1_Witness ==
    /\ cq.status = "scored"
    /\ cq.y1 = Num(1) /\ cq.p1 = Num(0)
    /\ cq.y2 = Num(0) /\ cq.p2 = Num(0)

\* C2: a score or confidence column count that differs from n_questions (with
\* at least one score column) only warns; tidy_columns still returns a tidy
\* table whose questions are the positional pairs, cut to the shorter list.
C2_MismatchOnlyWarns ==
    LET ns == Len(discovered_score_cols(raw))
        nc == Len(discovered_conf_cols(raw))
    IN  (FromSheet /\ ns >= 1 /\ (ns # NQ \/ nc # NQ))
           => /\ pc = "tidied"
              /\ warnings # <<>>
              /\ Questions(df) = 1..Min(ns, nc)

\* C3: when g1 or g2 has fewer than 2 non-missing values, independent_t ends
\* in an explicit error or invalid-result outcome, never in a normal record
\* whose t, p or cohens_d is NaN.
C3_SmallGroupIsExplicit ==
    (tres.status # "pending" /\ (tres.n1 < 2 \/ tres.n2 < 2))
       => tres.status \in {"error", "invalid"}

\* C4: with zero score columns tidy_columns aborts without a tidy table, and
\* the abort names the condition (no score columns) rather than being a
\* generic failure.
C4_NoScoreColumnsAbortIsSpecific ==
    (FromSheet /\ Len(discovered_score_cols(raw)) = 0)
       => /\ pc = "aborted"
          /\ df = NoDf
          /\ err = "NoScoreColumns"

\* C5: a missing conf_i gives missing p_i, abs_i and cws_i, a missing
\* correct_i gives missing abs_i and cws_i, nothing is filled with zero, and
\* every other question of the row keeps the value its own inputs give.
C5_MissingPropagates ==
    \A i \in 1..NQ : \A j \in 1..df.n :
       LET conf == df.data[Col("conf", i)][j]
           y == df.data[Col("correct", i)][j]
           p == Rat(conf.n - conf.d, 6 * conf.d)
       IN  /\ (HasCol(df, Col("p", i)) /\ IsNaN(conf)) => IsNaN(df.data[Col("p", i)][j])
           /\ (HasCol(df, Col("p", i)) /\ ~IsNaN(conf)) => df.data[Col("p", i)][j] = p
           /\ \A s \in {"abs", "cws"} :
                (HasCol(df, Col(s, i)) /\ (IsNaN(conf) \/ IsNaN(y)))
                   => IsNaN(df.data[Col(s, i)][j])
           /\ (HasCol(df, Col("cws", i)) /\ ~IsNaN(conf) /\ y = Num(1)) =>
                df.data[Col("cws", i)][j] = Rat(3 * p.d + 2 * p.n, 5 * p.d)
           /\ (HasCol(df, Col("cws", i)) /\ ~IsNaN(conf) /\ y = Num(0)) =>
                df.data[Col("cws", i)][j] = Rat(2 * p.d - 2 * p.n, 5 * p.d)
           /\ (HasCol(df, Col("abs", i)) /\ ~IsNaN(conf) /\ y = Num(1)) =>
                df.data[Col("abs", i)][j] =
                   Rat(3 * p.d * p.d - 2 * (p.n - p.d) * (p.n - p.d), 2 * p.d * p.d)
           /\ (HasCol(df, Col("abs", i)) /\ ~IsNaN(conf) /\ y = Num(0)) =>
                df.data[Col("abs", i)][j] = Rat(p.d * p.d - p.n * p.n, p.d * p.d)

C5_Witness ==
    /\ HasCols(df, "p", NQ) /\ HasCols(df, "abs", NQ) /\ HasCols(df, "cws", NQ)
    /\ \E j \in 1..df.n : \E i \in 1..NQ : \E k \in 1..NQ :
          /\ i # k
          /\ IsNaN(df.data[Col("conf", i)][j])
          /\ IsNaN(df.data[Col("cws", i)][j])
          /\ ~IsNaN(df.data[Col("cws", k)][j])

\* the sum f[1] + ... + f[n] of integers
RECURSIVE PlainSum(_, _)
PlainSum(f, n) == IF n = 0 THEN 0 ELSE f[n] + PlainSum(f, n - 1)

\* C6: total_correct is the sum of the non-missing correct_i (0 when all are
\* missing), accuracy is total_correct over the configured N, and mean_conf is
\* the mean of the non-missing conf_i, missing when all conf_i are missing.
C6_SummaryValues ==
    HasCol(df, Col("mean_conf", 0)) =>
       \A j \in 1..df.n :
          LET answered == {i \in 1..NQ : ~IsNaN(df.data[Col("correct", i)][j])}
              rated == {i \in 1..NQ : ~IsNaN(df.data[Col("conf", i)][j])}
              tc == df.data[Col("total_correct", 0)][j]
              acc == df.data[Col("accuracy", 0)][j]
              mc == df.data[Col("mean_conf", 0)][j]
              \* the cells are integers here; a missing cell counts 0
              correct_sum == PlainSum([i \in 1..NQ |-> df.data[Col("correct", i)][j].n], NQ)
              conf_sum == PlainSum([i \in 1..NQ |-> df.data[Col("conf", i)][j].n], NQ)
          IN  /\ tc = Num(correct_sum)
              /\ acc = Rat(correct_sum, NQ)
              /\ (answered = {}) => (tc = Num(0) /\ acc = Num(0))
              /\ (\A i \in 1..NQ : df.data[Col("correct", i)][j] = Num(1))
                    => (tc = Num(NQ) /\ acc = Num(1))
              /\ (rated = {}) => IsNaN(mc)
              /\ (rated # {}) => mc = Rat(conf_sum, Cardinality(rated))

\* a row with some but not all answers missing has been summarised
C6_Witness ==
    /\ HasCol(df, Col("mean_conf", 0))
    /\ \E j \in 1..df.n :
          /\ \E i \in 1..NQ : df.data[Col("correct", i)][j] = Num(1)
          /\ \E i \in 1..NQ : IsNaN(df.data[Col("correct", i)][j])
          /\ \A i \in 1..NQ : IsNaN(df.data[Col("conf", i)][j])
          /\ IsNaN(df.data[Col("mean_conf", 0)][j])

DerivedColumns ==
    {Col(s, i) : s \in {"p", "abs", "cws"}, i \in 1..NQ}
    \cup {Col("total_abs", 0), Col("total_cws", 0)}

\* C7: a second add_question_scores / add_summary_scores with the same flags
\* on a table that has been through both leaves total_abs, total_cws and every
\* p_i, abs_i, cws_i at the values of the first application.
C7_SecondPassKeepsValues ==
    [][\A use_abs \in BOOLEAN, use_cws \in BOOLEAN :
          \/ \A c \in DerivedColumns \cap DOMAIN df.data :
                c \in DOMAIN df'.data /\ df'.data[c] = df.data[c]
          \/ ~FullyScored(df, NQ, use_abs, use_cws)
          \/ ~(AddQuestionScores(use_abs, use_cws) \/ AddSummaryScores(use_abs, use_cws))]_vars

\* both calls have been repeated on a fully scored table with totals that are not 0
C7_Witness ==
    /\ rescored = {"question", "summary"}
    /\ FullyScored(df, NQ, TRUE, TRUE)
    /\ \E j \in 1..df.n : RLt(Num(0), df.data[Col("total_cws", 0)][j])
                          /\ RLt(Num(0), df.data[Col("total_abs", 0)][j])

\* C8: the participant of every output row is the row's value in the first
\* column containing "What is your name" if there is one, else its Timestamp
\* rendered as text if there is a Timestamp column, else the 1-based position
\* of the row among the rows that survive the filter.
C8_ParticipantPriority ==
    (raw # NoSheet /\ pc = "tidied") =>
       LET named == {i \in 1..Len(raw.cols) : ContainsName(raw.cols[i])}
           first == CHOOSE i \in named : \A k \in named : i <= k
           keep == kept_rows(raw)
           participant == df.data[ParticipantC]
       IN  /\ df.n = Len(keep)
           /\ \A j \in 1..df.n :
                 IF named # {}
                 THEN participant[j] = raw.data[raw.cols[first]][keep[j]]
                 ELSE IF \E i \in 1..Len(raw.cols) : raw.cols[i] = TimestampCol
                 THEN /\ participant[j].k = "text"
                      /\ participant[j] = astype_str(raw.data[TimestampCol][keep[j]])
                 ELSE participant[j] = Cell("num", j)

\* no name and no Timestamp column, and a dropped row precedes a surviving one
C8_Witness ==
    /\ raw # NoSheet /\ pc = "tidied"
    /\ \A i \in 1..Len(raw.cols) : ~ContainsName(raw.cols[i]) /\ raw.cols[i] # TimestampCol
    /\ df.n >= 1 /\ kept_rows(raw)[1] > 1
    /\ df.data[ParticipantC][1] = Cell("num", 1)

\* the ranges of a SummaryRecord, for the columns the frame has
Ranges(d) ==
    \A j \in 1..d.n :
       /\ HasCol(d, Col("total_correct", 0)) =>
             LET tc == d.data[Col("total_correct", 0)][j]
             IN  tc.d = 1 /\ tc.n \in 0..NQ
       /\ HasCol(d, Col("accuracy", 0)) =>
             LET acc == d.data[Col("accuracy", 0)][j]
             IN  RLe(Num(0), acc) /\ RLe(acc, Num(1))
       /\ HasCol(d, Col("mean_conf", 0)) =>
             LET mc == d.data[Col("mean_conf", 0)][j]
             IN  IsNaN(mc) \/ (RLe(Num(1), mc) /\ RLe(mc, Num(7)))
       /\ \A i \in 1..NQ : HasCol(d, Col("cws", i)) =>
             LET cws == d.data[Col("cws", i)][j]
             IN  IsNaN(cws) \/ (RLe(Num(0), cws) /\ RLe(cws, Num(1)))

\* every numeric score cell is 0 or 1, every numeric confidence cell is in [1,7]
CellsInRange(r) ==
    \A k \in 1..Len(r.cols) : \A i \in 1..r.n :
       LET c == r.cols[k]
           x == to_numeric(r.data[c][i])
       IN  /\ EndsWithScore(c) => (IsNaN(x) \/ x \in {Num(0), Num(1)})
           /\ StartsWithHowConfident(c) =>
                 (IsNaN(x) \/ (RLe(Num(1), x) /\ RLe(x, Num(7))))

TidyColumnsOf(d) ==
    {ParticipantC, GroupC} \cup {Col(s, i) : s \in {"correct", "conf"}, i \in 1..NQ}

\* what a scoring call with the given flags may not touch
Additive(use_abs, use_cws) ==
    /\ df'.n = df.n
    /\ DOMAIN df.data \subseteq DOMAIN df'.data
    /\ \A c \in TidyColumnsOf(df) \cap DOMAIN df.data : df'.data[c] = df.data[c]
    /\ \A c \in {Col("abs", i) : i \in 1..NQ} \cup {Col("total_abs", 0)} :
          use_abs \/ IF c \in DOMAIN df.data
                     THEN df'.data[c] = df.data[c]
                     ELSE c \notin DOMAIN df'.data
    /\ \A c \in {Col("cws", i) : i \in 1..NQ} \cup {Col("total_cws", 0)} :
          use_cws \/ IF c \in DOMAIN df.data
                     THEN df'.data[c] = df.data[c]
                     ELSE c \notin DOMAIN df'.data

\* C10: add_question_scores and add_summary_scores, in any order and any
\* number of times, leave participant, group, correct_i and conf_i at their
\* values, remove no column, keep the rows, and with use_abs (use_cws) false
\* neither create nor change an abs_i/total_abs (cws_i/total_cws) column.
C10_ScoringIsAdditive ==
    [][\A use_abs \in BOOLEAN, use_cws \in BOOLEAN :
          \/ Additive(use_abs, use_cws)
          \/ ~(AddQuestionScores(use_abs, use_cws) \/ AddSummaryScores(use_abs, use_cws))]_vars

\* add_summary_scores ran without use_abs on a frame that has the abs_i columns
C10_Witness ==
    /\ pc = "tidied" /\ df.n >= 1 /\ err = "none"
    /\ HasCols(df, "abs", NQ) /\ HasCols(df, "cws", NQ)
    /\ HasCol(df, Col("total_cws", 0))
    /\ ~HasCol(df, Col("total_abs", 0))

====
